---- MODULE Spec2Model ----
\* Image-analysis pipeline: the Ingestion Handler (vision_function/func.py) and
\* the Upload/Viewer Service (app/app.py), with the object storage bucket, the
\* vision service, the vault and the SODA document store as their environment.
\*
\* Strings the code takes apart (split, strip, rsplit, lower) are sequences of
\* characters; strings the code only compares or prints are TLA+ strings.  A
\* character is a one-character string or, for a whitespace character that
\* has no TLA+ escape, its code point written "U+000B".  The alphabet is
\* ASCII and the Unicode whitespace.  None, "" and a missing JSON key all read as the empty sequence
\* wherever the code only tests truthiness or uses .get(key, "").
EXTENDS Integers, Sequences, FiniteSets, TLC

VARIABLES
    bucket,      \* names of the objects in the storage bucket BUCKET_NAME
    collection,  \* TRUE iff the SODA collection DB_COLLECTION exists
    docs,        \* the collection's items, in insertion order: [id, value]
    events,      \* object-storage events emitted and not yet delivered
    h,           \* the handler invocation in progress (or the last one finished)
    fg,          \* module globals of the handler process (func.py lines 13-24)
    cfg,         \* environment of the handler process (os.environ)
    app,         \* module globals of the web process (app.py lines 27-38)
    resp,        \* the response of the web request finished by the last step
    w            \* the web request in progress: what it has done so far

vars == <<bucket, collection, docs, events, h, fg, cfg, app, resp, w>>

----------------------------------------------------------------------------
\* Bounds of the model.

\* The documents the store holds at most: an invocation about to insert waits
\* while the store is full.
MaxDocs == 2

----------------------------------------------------------------------------
\* Strings as sequences of characters.

E == <<>>

\* The ASCII characters for which str.isspace() holds.
AsciiWhitespace ==
    {" ", "\t", "\n", "\r", "\f", "U+000B", "U+001C", "U+001D", "U+001E",
     "U+001F"}

\* The other whitespace whose compatibility decomposition is a space ...
WideSpaces ==
    {"U+00A0", "U+2000", "U+2001", "U+2002", "U+2003", "U+2004", "U+2005",
     "U+2006", "U+2007", "U+2008", "U+2009", "U+200A", "U+202F", "U+205F",
     "U+3000"}

\* ... and the whitespace that has none.
OtherSpaces == {"U+0085", "U+1680", "U+2028", "U+2029"}

\* str.isspace() of one character: what str.strip() and str.split() remove.
IsSpace(c) == c \in AsciiWhitespace \cup WideSpaces \cup OtherSpaces

RECURSIVE LStrip(_)
LStrip(s) == IF s # E /\ IsSpace(Head(s)) THEN LStrip(Tail(s)) ELSE s

RECURSIVE RStrip(_)
RStrip(s) ==
    IF s # E /\ IsSpace(s[Len(s)]) THEN RStrip(SubSeq(s, 1, Len(s) - 1)) ELSE s

\* str.strip()
Strip(s) == RStrip(LStrip(s))

\* str.split(sep) for a one-character separator: always at least one part.
RECURSIVE SplitFrom(_, _, _, _)
SplitFrom(s, sep, i, cur) ==
    IF i > Len(s) THEN <<cur>>
    ELSE IF s[i] = sep THEN <<cur>> \o SplitFrom(s, sep, i + 1, E)
    ELSE SplitFrom(s, sep, i + 1, Append(cur, s[i]))

Split(s, sep) == SplitFrom(s, sep, 1, E)

\* sep in s
Contains(s, c) == \E i \in 1..Len(s) : s[i] = c

UpperCase ==
    <<"A", "B", "C", "D", "E", "F", "G", "H", "I", "J", "K", "L", "M", "N", "O",
      "P", "Q", "R", "S", "T", "U", "V", "W", "X", "Y", "Z">>
LowerCase ==
    <<"a", "b", "c", "d", "e", "f", "g", "h", "i", "j", "k", "l", "m", "n", "o",
      "p", "q", "r", "s", "t", "u", "v", "w", "x", "y", "z">>

\* str.lower() of one character
LowerChar(c) ==
    IF \E i \in 1..Len(UpperCase) : UpperCase[i] = c
    THEN LowerCase[CHOOSE i \in 1..Len(UpperCase) : UpperCase[i] = c]
    ELSE c

\* str.lower()
Lower(s) == [i \in 1..Len(s) |-> LowerChar(s[i])]

\* s.rsplit(sep, 1)[1], for s that contains sep: the text after the last sep.
RECURSIVE AfterLast(_, _)
AfterLast(s, sep) ==
    IF s = E THEN E
    ELSE IF s[Len(s)] = sep THEN E
    ELSE Append(AfterLast(SubSeq(s, 1, Len(s) - 1), sep), s[Len(s)])

\* any(list) over a list of strings
AnyTruthy(l) == \E i \in 1..Len(l) : l[i] # E

----------------------------------------------------------------------------
\* Responses of the web service.  resp is the output of the step just taken:
\* the response of the request it finished, or NoWebResp when the step
\* finished no web request.  calls lists the requests the web service made to the
\* storage service and to the document store while serving it.

WebResp(op, name, flash, count, images, results, calls) ==
    [op |-> op, name |-> name, flash |-> flash, count |-> count,
     images |-> images, results |-> results, calls |-> calls]

NoWebResp == WebResp("none", E, "", 0, {}, <<>>, <<>>)

\* The web process serves one request at a time; a request makes its calls to
\* the storage service and to the document store one after another and waits
\* for each.  w is the request being served: pc is the call it makes next
\* ("idle": no request is being served), images is the return value of
\* get_bucket_images, calls the requests made so far, and storage_deleted,
\* todo (documents_to_delete, the part not yet visited) and count
\* (deleted_count) are the locals of delete_file and
\* delete_analysis_by_filename.
WebIdle ==
    [pc |-> "idle", op |-> "none", name |-> E, images |-> {}, calls |-> <<>>,
     storage_deleted |-> FALSE, todo |-> <<>>, count |-> 0]

----------------------------------------------------------------------------
\* Names used as inputs.

NsOne == <<"n", "s", "1">>
BktOne == <<"b", "1">>
CatJpg == <<"c", "a", "t", ".", "j", "p", "g">>
DogPng == <<"d", "o", "g", ".", "p", "n", "g">>
XPng == <<"x", ".", "p", "n", "g">>
YJpg == <<"y", ".", "j", "p", "g">>
Blank == <<" ">>
PaddedY == <<" ">> \o YJpg \o <<" ">>

\* BUCKET_NAME (app.py line 14, shortened) and the tenancy's namespace
BUCKET_NAME == <<"o", "c", "i", "-", "b">>
Namespace == NsOne

\* The composite resource identifier /n/{namespace}/b/{bucket}/o/{object}.
Rid(ns, b, o) ==
    <<"/", "n", "/">> \o ns \o <<"/", "b", "/">> \o b \o <<"/", "o", "/">> \o o

CreateObject == "com.oraclecloud.objectstorage.createobject"
DeleteObject == "com.oraclecloud.objectstorage.deleteobject"

----------------------------------------------------------------------------
\* Event payloads.  shape says how far the body is a JSON object of the
\* expected form; the other fields are the values .get(key, "") reads.

\* shape: "Ok", "NoBody" (data is None), "BadJson", "BodyNotObject",
\* "DataNotObject", "DetailsNotObject".

Event(shape, et, an, dn, dr, br, bn, drid, brid, bkt, ns) ==
    [shape |-> shape, eventType |-> et,
     adObjectName |-> an, dObjectName |-> dn, dResourceName |-> dr,
     bResourceName |-> br, bObjectName |-> bn,
     dResourceId |-> drid, bResourceId |-> brid,
     bucketName |-> bkt, namespace |-> ns]

\* The event the storage service emits when object o is created in bucket b:
\* the object name is data.resourceName, the identifier data.resourceId.
StorageEvent(ns, b, o) ==
    Event("Ok", CreateObject, E, E, o, E, E, Rid(ns, b, o), E, b, ns)

\* Resource identifiers tried: none, the documented form, the documented form
\* without its leading slash, forms with an empty or blank object, a form cut
\* short and a form with another marker in place of "o".
DataRids ==
    {E,
     Rid(NsOne, BktOne, CatJpg),
     Tail(Rid(NsOne, BktOne, CatJpg)),
     Rid(NsOne, BktOne, E),
     Rid(NsOne, BktOne, Blank),
     <<"/", "n", "/">> \o NsOne \o <<"/", "b", "/">> \o BktOne,
     <<"/", "n", "/">> \o NsOne \o <<"/", "b", "/">> \o BktOne
         \o <<"/", "x", "/">> \o CatJpg}

WideEvents ==
    { Event("Ok", et, an, dn, dr, br, bn, drid, brid, bkt, NsOne) :
        et \in {CreateObject, DeleteObject},
        an \in {E, Blank, XPng}, dn \in {E, DogPng}, dr \in {E, PaddedY},
        br \in {E, CatJpg}, bn \in {E, YJpg},
        drid \in DataRids, brid \in {E, Rid(NsOne, BktOne, DogPng)},
        bkt \in {E, BktOne} }
    \cup { Event("Ok", CreateObject, E, E, E, E, E, drid, E, BktOne, E) :
             drid \in DataRids }
    \cup { Event("Ok", CreateObject, an, E, dr, E, E, drid, E, BktOne, NsOne) :
             an \in {<<"\r">>, CatJpg \o <<"\r">>}, dr \in {E, <<"\f">>},
             drid \in {E, Tail(Rid(NsOne, BktOne, CatJpg))} }
    \cup { Event(sh, "", E, E, E, E, E, E, E, E, E) :
             sh \in {"NoBody", "BadJson", "BodyNotObject"} }
    \cup { Event(sh, et, E, E, E, E, E, E, E, E, E) :
             sh \in {"DataNotObject", "DetailsNotObject"},
             et \in {CreateObject, DeleteObject} }

----------------------------------------------------------------------------
\* The handler's reading of the event (func.py lines 203-265).

\* possible_names, lines 229-235
PossibleNames(ev) ==
    <<ev.adObjectName, ev.dObjectName, ev.dResourceName, ev.bResourceName,
      ev.bObjectName>>

\* resource_id, line 238
ResourceId(ev) == IF ev.dResourceId # E THEN ev.dResourceId ELSE ev.bResourceId

\* possible_names after lines 239-243; parts[4], parts[5] of the code are
\* parts[5], parts[6] here (sequences start at 1).
Candidates(ev) ==
    LET pn == PossibleNames(ev)
        parts == Split(ResourceId(ev), "/")
    IN  IF ResourceId(ev) # E /\ ~AnyTruthy(pn)
           /\ Len(parts) >= 6 /\ parts[5] = <<"o">>
        THEN Append(pn, parts[6])
        ELSE pn

\* The loop of lines 246-249: the first name that is non-empty after strip.
RECURSIVE FirstNonEmpty(_)
FirstNonEmpty(l) ==
    IF l = <<>> THEN E
    ELSE IF Head(l) # E /\ Strip(Head(l)) # E THEN Strip(Head(l))
    ELSE FirstNonEmpty(Tail(l))

ObjectNameOf(ev) == FirstNonEmpty(Candidates(ev))

\* Responses (fdk response.Response: status 200 unless status_code is given).
Response(status, message, image, bkt, found) ==
    [status |-> status, message |-> message, image_name |-> image,
     bucket_name |-> bkt, objects_found |-> found]

NoResp == Response(0, "", E, E, 0)
Ignored == Response(200, "Event ignored", E, E, 0)
MissingObject == Response(400, "Missing object information", E, E, 0)
\* The status is given as 503.
NoCredentialsUnavailable ==
    Response(503, "Database credentials not configured", E, E, 0)
NoCredentials == Response(500, "Database credentials not configured", E, E, 0)
ClientsFailed == Response(500, "Failed to initialize OCI clients", E, E, 0)
AnalyzeFailed == Response(500, "Failed to analyze image", E, E, 0)
StoreFailed == Response(500, "Failed to store analysis results", E, E, 0)
InternalError == Response(500, "Internal function error", E, E, 0)
Success(image, bkt, found) ==
    Response(200, "Image analysis completed successfully", image, bkt, found)

\* A slip in the comparison of line 210: every event type is let through.
IsCreateEventAny(ev) == TRUE

\* line 210
IsCreateEvent(ev) == ev.eventType = CreateObject

\* A slip in the test of line 257: only the object name is required.
MissingInfoNameOnly(object_name, bucket_name) == object_name = E

\* line 257
MissingInfo(object_name, bucket_name) == object_name = E \/ bucket_name = E

\* Lines 203-265 as a function of the event: the response the handler returns
\* before any external call, or NoResp when it goes on to load its
\* configuration.  Exceptions of lines 205-225 reach the handler of line 401.
ParseOutcome(ev) ==
    IF ev.shape \in {"NoBody", "BadJson", "BodyNotObject"} THEN InternalError
    ELSE IF ~IsCreateEvent(ev) THEN Ignored
    ELSE IF ev.shape \in {"DataNotObject", "DetailsNotObject"} THEN InternalError
    ELSE IF MissingInfo(ObjectNameOf(ev), ev.bucketName) THEN MissingObject
    ELSE NoResp

NoEvent == Event("None", "", E, E, E, E, E, E, E, E, E)

NoAnalysis == [objects |-> <<>>]

Idle ==
    [pc |-> "idle", ev |-> NoEvent, object_name |-> E, bucket_name |-> E,
     namespace |-> E, analysis |-> NoAnalysis, resp |-> NoResp, calls |-> <<>>]

\* The invocation makes external call c.
Called(rec, c) == [rec EXCEPT !.calls = Append(@, c)]

\* handler(), lines 196-265: the platform delivers event ev.
HandlerInvoke(ev) ==
    /\ h.pc \in {"idle", "done"}
    /\ ev \in events
    /\ events' = events \ {ev}
    /\ LET r == ParseOutcome(ev)
           start == [Idle EXCEPT !.ev = ev]
       IN  h' = IF r # NoResp
                THEN [start EXCEPT !.pc = "done", !.resp = r]
                ELSE [start EXCEPT !.pc = "config",
                                   !.object_name = ObjectNameOf(ev),
                                   !.bucket_name = ev.bucketName,
                                   !.namespace = ev.namespace]
    /\ resp' = NoWebResp
    /\ UNCHANGED <<bucket, collection, docs, fg, cfg, app, w>>

----------------------------------------------------------------------------
\* Configuration of the handler process (func.py lines 13-72, 267-278).

EnvUser == <<"e", "u">>
EnvPass == <<"e", "p">>
\* What the vault holds; the user name is stored with a trailing line end.
VaultUser == <<"v", "u", "\r", "\n">>
VaultPass == <<"v", "p">>

Config(user, pass, us, ps, urls) ==
    [DB_USERNAME |-> user, DB_PASSWORD |-> pass,
     userSecret |-> us, pwSecret |-> ps, urlSecret |-> urls]

\* Credentials in the environment, no vault.
EnvConfig == Config(EnvUser, EnvPass, FALSE, FALSE, FALSE)
\* Credentials and endpoint in the vault only.
VaultConfig == Config(E, E, TRUE, TRUE, TRUE)
\* Nothing configured.
EmptyConfig == Config(E, E, FALSE, FALSE, FALSE)
\* User name in the environment, password in the vault.
MixedConfig == Config(EnvUser, E, FALSE, TRUE, FALSE)

\* DB_ORDS_BASE_URL of the environment, and the endpoint the vault holds,
\* stored with a trailing newline.
EnvUrl == <<"e", "n", "v", "/">>
VaultUrl == <<"v", "a", "u", "l", "t", "/", "\n">>

\* Module load, lines 13-22.
Globals(c) ==
    [DB_USERNAME |-> c.DB_USERNAME, DB_PASSWORD |-> c.DB_PASSWORD,
     DB_ORDS_BASE_URL |-> EnvUrl]

\* lines 17-18
DB_SODA_PATH ==
    <<"a", "d", "m", "i", "n", "/", "s", "o", "d", "a", "/", "l", "a", "t", "e",
      "s", "t">>

\* DB_BASE_URL, lines 19 and 72: always the base URL followed by the path.
DB_BASE_URL(g) == g.DB_ORDS_BASE_URL \o DB_SODA_PATH

\* _fetch_secret_from_vault, lines 26-41: the secret, or None (here E) when
\* the signer, the client or the request fails.
VaultReplies(value) == {E, value}

UrlReplies == VaultReplies(VaultUrl)

\* line 52
AnySecret(c) == c.pwSecret \/ c.userSecret \/ c.urlSecret

\* lines 57-61: the globals after the user-name fetch was answered u.
LoadUser(g, c, u) ==
    IF c.userSecret /\ u # E THEN [g EXCEPT !.DB_USERNAME = Strip(u)] ELSE g

\* lines 62-66
LoadPassword(g, c, p) ==
    IF c.pwSecret /\ p # E THEN [g EXCEPT !.DB_PASSWORD = p] ELSE g

\* lines 67-71
LoadUrl(g, c, url) ==
    IF c.urlSecret /\ url # E THEN [g EXCEPT !.DB_ORDS_BASE_URL = Strip(url)]
    ELSE g

\* load_db_config_from_vault_if_available (lines 43-72) with the vault's
\* replies u, p, url to the three fetches it makes (a reply is read only when
\* the corresponding secret id is configured).
LoadDbConfig(g, c, u, p, url) ==
    IF ~AnySecret(c) THEN g
    ELSE LoadUrl(LoadPassword(LoadUser(g, c, u), c, p), c, url)

\* handler(), lines 269-278: the check of the credentials in globals g.
CheckCredentials(rec, g) ==
    IF g.DB_USERNAME = E \/ g.DB_PASSWORD = E
    THEN [rec EXCEPT !.pc = "done", !.resp = NoCredentials]
    ELSE [rec EXCEPT !.pc = "clients"]

\* The invocation after a fetch of a secret that is configured (one vault
\* request) or not (none).
Fetched(rec, configured) == IF configured THEN Called(rec, "vault") ELSE rec

\* handler(), line 268, and load_db_config_from_vault_if_available, lines
\* 48-61: with no secret id configured the function returns at once and the
\* credentials are checked; otherwise the user name is fetched, answered u.
HandlerLoadUser(u) ==
    /\ h.pc = "config"
    /\ (~cfg.userSecret => u = E)
    /\ IF ~AnySecret(cfg)
       THEN fg' = fg /\ h' = CheckCredentials(h, fg)
       ELSE /\ fg' = LoadUser(fg, cfg, u)
            /\ h' = [Fetched(h, cfg.userSecret) EXCEPT !.pc = "config_password"]
    /\ resp' = NoWebResp
    /\ UNCHANGED <<bucket, collection, docs, events, cfg, app, w>>

\* lines 62-66: the password is fetched, answered p.
HandlerLoadPassword(p) ==
    /\ h.pc = "config_password"
    /\ (~cfg.pwSecret => p = E)
    /\ fg' = LoadPassword(fg, cfg, p)
    /\ h' = [Fetched(h, cfg.pwSecret) EXCEPT !.pc = "config_url"]
    /\ resp' = NoWebResp
    /\ UNCHANGED <<bucket, collection, docs, events, cfg, app, w>>

\* lines 67-72 and 269-278: the endpoint is fetched, answered url, and the
\* credentials are checked.
HandlerLoadUrl(url) ==
    /\ h.pc = "config_url"
    /\ (~cfg.urlSecret => url = E)
    /\ fg' = LoadUrl(fg, cfg, url)
    /\ h' = CheckCredentials(Fetched(h, cfg.urlSecret), fg')
    /\ resp' = NoWebResp
    /\ UNCHANGED <<bucket, collection, docs, events, cfg, app, w>>

\* handler(), lines 267-278.
HandlerLoadConfig ==
    \/ \E u \in VaultReplies(VaultUser) : HandlerLoadUser(u)
    \/ \E p \in VaultReplies(VaultPass) : HandlerLoadPassword(p)
    \/ \E url \in UrlReplies : HandlerLoadUrl(url)

\* handler(), lines 280-301: the resource-principal signer and the clients.
HandlerInitClients ==
    /\ h.pc = "clients"
    /\ \E ok \in BOOLEAN :
         h' = IF ok THEN [Called(h, "signer") EXCEPT !.pc = "analyze"]
              ELSE [Called(h, "signer") EXCEPT !.pc = "done",
                                              !.resp = ClientsFailed]
    /\ resp' = NoWebResp
    /\ UNCHANGED <<bucket, collection, docs, events, fg, cfg, app, w>>

----------------------------------------------------------------------------
\* Vision analysis (func.py lines 306-363).

\* A detected object as the vision service returns it: confidence in
\* hundredths, normalized vertices in hundredths of the image side.
Vertex(x, y) == [x |-> x, y |-> y]
Detected(name, confidence, vs) ==
    [name |-> name, confidence |-> confidence, vertices |-> vs]

RawCat ==
    Detected("Cat", 97, <<Vertex(10, 20), Vertex(60, 20), Vertex(60, 90),
                          Vertex(10, 90)>>)
\* listed from the opposite corner
RawDog ==
    Detected("Dog", 55, <<Vertex(80, 70), Vertex(30, 70), Vertex(30, 40),
                          Vertex(80, 40)>>)
\* no bounding polygon vertices
RawBare == Detected("Blob", 12, <<>>)

VisionReplies == {<<>>, <<RawCat, RawDog>>, <<RawBare>>}

Abs(x) == IF x < 0 THEN -x ELSE x

\* obj_data, lines 341-350 (vertex 0 and vertex 2 of the code are 1 and 3).
ObjData(obj) ==
    [name |-> obj.name, confidence |-> obj.confidence,
     bounding_box |->
        [left |-> obj.vertices[1].x, top |-> obj.vertices[1].y,
         width |-> Abs(obj.vertices[3].x - obj.vertices[1].x),
         height |-> Abs(obj.vertices[3].y - obj.vertices[1].y)]]

\* The indexing of lines 345-348 raises on an object with fewer vertices.
Normalizable(raw) == \A i \in 1..Len(raw) : Len(raw[i].vertices) >= 3

\* analysis_results, lines 336-351
Normalize(raw) == [objects |-> [i \in 1..Len(raw) |-> ObjData(raw[i])]]

\* The object the vision service is pointed at can be read: known for the
\* bucket of this model, open for any other bucket.
Readable(ns, b, o) == (ns = Namespace /\ b = BUCKET_NAME) => o \in bucket

\* A failed analyze_image call is made once more before giving up.
HandlerAnalyzeRetry ==
    /\ h.pc = "analyze"
    /\ \/ h' = [Called(Called(h, "vision"), "vision") EXCEPT
                    !.pc = "done", !.resp = AnalyzeFailed]
       \/ /\ Readable(h.namespace, h.bucket_name, h.object_name)
          /\ \E raw \in VisionReplies :
               h' = IF Normalizable(raw)
                    THEN [Called(h, "vision") EXCEPT !.pc = "probe",
                                                    !.analysis = Normalize(raw)]
                    ELSE [Called(h, "vision") EXCEPT !.pc = "done",
                                                    !.resp = AnalyzeFailed]
    /\ resp' = NoWebResp
    /\ UNCHANGED <<bucket, collection, docs, events, fg, cfg, app, w>>

\* handler(), lines 306-363: one analyze_image call, then the normalisation.
HandlerAnalyze ==
    /\ h.pc = "analyze"
    /\ \/ h' = [Called(h, "vision") EXCEPT !.pc = "done", !.resp = AnalyzeFailed]
       \/ /\ Readable(h.namespace, h.bucket_name, h.object_name)
          /\ \E raw \in VisionReplies :
               h' = IF Normalizable(raw)
                    THEN [Called(h, "vision") EXCEPT !.pc = "probe",
                                                    !.analysis = Normalize(raw)]
                    ELSE [Called(h, "vision") EXCEPT !.pc = "done",
                                                    !.resp = AnalyzeFailed]
    /\ resp' = NoWebResp
    /\ UNCHANGED <<bucket, collection, docs, events, fg, cfg, app, w>>

----------------------------------------------------------------------------
\* The SODA document store as the REST calls see it.

Ids == 1..MaxDocs

\* The key the store assigns (assignmentMethod UUID): one no live item has.
FreshId == CHOOSE i \in Ids : (\A k \in 1..Len(docs) : docs[k].id # i)
               /\ (\A j \in Ids : (\A k \in 1..Len(docs) : docs[k].id # j) => i <= j)

HasRoom == Len(docs) < MaxDocs

\* POST of a document: the collection's items afterwards.
Inserted(document) == Append(docs, [id |-> FreshId, value |-> document])

\* GET of the collection: the status of a store that answers.
ProbeStatus == IF collection THEN 200 ELSE 404

\* The statuses a GET of the collection can come back with; 0 stands for an
\* exception of the requests library (timeout, connection error).
ProbeReplies == {ProbeStatus, 500, 0}

----------------------------------------------------------------------------
\* Persistence (func.py lines 74-194, 365-399).

\* document, lines 162-167
Document(image, bkt, analysis) ==
    [image_name |-> image, bucket_name |-> bkt, timestamp |-> "utcnow",
     analysis_results |-> analysis]

\* ensure_collection_exists, lines 83-93 and 139-149: the existence probe.
HandlerProbe ==
    /\ h.pc = "probe"
    /\ \E status \in ProbeReplies :
         h' = IF status = 200 THEN [Called(h, "probe") EXCEPT !.pc = "insert"]
              ELSE IF status = 404 THEN [Called(h, "probe") EXCEPT !.pc = "create"]
              ELSE [Called(h, "probe") EXCEPT !.pc = "done", !.resp = StoreFailed]
    /\ resp' = NoWebResp
    /\ UNCHANGED <<bucket, collection, docs, events, fg, cfg, app, w>>

\* What the PUT of line 124 can come back with: "created" (status 200 or
\* 201: the collection exists with this metadata afterwards),
\* "different-metadata" (the store refuses: a collection of that name exists
\* with other metadata), "error" (any other status, or an exception of the
\* requests library before the store acts), "lost" (the store creates the
\* collection and its reply does not arrive within timeout=30: requests
\* raises).
CreateReplies == {"created", "different-metadata", "error", "lost"}

\* ensure_collection_exists, lines 94-138 and 147-149: the PUT that creates
\* the collection, answered with reply.
HandlerCreateWith(reply) ==
    /\ h.pc = "create"
    /\ collection' = (collection \/ reply \in {"created", "lost"})
    /\ h' = IF reply = "created"
            THEN [Called(h, "create") EXCEPT !.pc = "insert"]
            ELSE [Called(h, "create") EXCEPT !.pc = "done",
                                             !.resp = StoreFailed]
    /\ resp' = NoWebResp
    /\ UNCHANGED <<bucket, docs, events, fg, cfg, app, w>>

HandlerCreate == \E reply \in CreateReplies : HandlerCreateWith(reply)

\* store_analysis_result_via_rest, lines 161-194, and handler(), lines 370-399:
\* the POST of the document and the response that follows from its outcome.
HandlerInsert ==
    /\ h.pc = "insert"
    /\ HasRoom
    /\ LET document == Document(h.object_name, h.bucket_name, h.analysis)
           ok == [Called(h, "insert") EXCEPT
                     !.pc = "done",
                     !.resp = Success(h.object_name, h.bucket_name,
                                      Len(h.analysis.objects))]
           failed == [Called(h, "insert") EXCEPT !.pc = "done",
                                                 !.resp = StoreFailed]
       IN  \/ \* 201 Created
              /\ collection
              /\ docs' = Inserted(document)
              /\ h' = ok
           \/ \* any other status, or an exception before the store acts
              /\ docs' = docs
              /\ h' = failed
           \/ \* the store inserts; the reply is lost (timeout=30), or is a 201
              \* whose body line 182 cannot read
              /\ collection
              /\ docs' = Inserted(document)
              /\ h' = failed
    /\ resp' = NoWebResp
    /\ UNCHANGED <<bucket, collection, events, fg, cfg, app, w>>

HandlerStep ==
    \/ HandlerLoadConfig
    \/ HandlerInitClients
    \/ HandlerAnalyze
    \/ HandlerProbe
    \/ HandlerCreate
    \/ HandlerInsert

----------------------------------------------------------------------------
\* One invocation of the handler on an arbitrary event.

AppIdle == [DB_USERNAME |-> E, DB_PASSWORD |-> E, client |-> FALSE]

HandlerConfigs == {EnvConfig, VaultConfig, EmptyConfig, MixedConfig}

InitHandler ==
    /\ bucket = {}
    /\ collection \in BOOLEAN
    /\ docs = <<>>
    /\ \E ev \in WideEvents : events = {ev}
    /\ h = Idle
    /\ cfg \in HandlerConfigs
    /\ fg = Globals(cfg)
    /\ app = AppIdle
    /\ resp = NoWebResp
    /\ w = WebIdle

NextHandler ==
    \/ \E ev \in events : HandlerInvoke(ev)
    \/ HandlerStep

SpecHandler == InitHandler /\ [][NextHandler]_vars

----------------------------------------------------------------------------
\* The Upload/Viewer Service (app/app.py): file names.

Png == <<"p", "n", "g">>
Jpg == <<"j", "p", "g">>
Jpeg == <<"j", "p", "e", "g">>
Gif == <<"g", "i", "f">>

\* line 16
ALLOWED_EXTENSIONS == {Png, Jpg, Jpeg, Gif}

\* The extension is compared as typed.
AllowedFileCaseSensitive(filename) ==
    Contains(filename, ".") /\ AfterLast(filename, ".") \in ALLOWED_EXTENSIONS

\* allowed_file, lines 268-270
allowed_file(filename) ==
    Contains(filename, ".")
    /\ Lower(AfterLast(filename, ".")) \in ALLOWED_EXTENSIONS

Letters ==
    {"a", "b", "c", "d", "e", "f", "g", "h", "i", "j", "k", "l", "m", "n", "o",
     "p", "q", "r", "s", "t", "u", "v", "w", "x", "y", "z",
     "A", "B", "C", "D", "E", "F", "G", "H", "I", "J", "K", "L", "M", "N", "O",
     "P", "Q", "R", "S", "T", "U", "V", "W", "X", "Y", "Z"}
Digits == {"0", "1", "2", "3", "4", "5", "6", "7", "8", "9"}

\* werkzeug's _filename_ascii_strip_re keeps these characters.
SafeChar(c) == c \in Letters \cup Digits \cup {"_", ".", "-"}

\* unicodedata.normalize("NFKD", filename).encode("ascii", "ignore"): a wide
\* space becomes a space, any other character outside ASCII goes.
RECURSIVE AsciiFold(_)
AsciiFold(s) ==
    IF s = E THEN E
    ELSE (IF Head(s) \in WideSpaces THEN <<" ">>
          ELSE IF Head(s) \in OtherSpaces THEN E
          ELSE <<Head(s)>>) \o AsciiFold(Tail(s))

\* filename.replace(os.sep, " ")
RECURSIVE ReplaceSep(_)
ReplaceSep(s) ==
    IF s = E THEN E
    ELSE <<IF Head(s) = "/" THEN " " ELSE Head(s)>> \o ReplaceSep(Tail(s))

\* "_".join(filename.split()): runs of whitespace become one underscore,
\* leading and trailing whitespace goes.
RECURSIVE JoinWords(_)
JoinWords(s) ==
    LET t == LStrip(s)
    IN  IF t = E THEN E
        ELSE IF IsSpace(Head(s)) THEN <<"_">> \o JoinWords(t)
        ELSE <<Head(s)>> \o JoinWords(Tail(s))

RECURSIVE KeepSafe(_)
KeepSafe(s) ==
    IF s = E THEN E
    ELSE (IF SafeChar(Head(s)) THEN <<Head(s)>> ELSE E) \o KeepSafe(Tail(s))

RECURSIVE StripDots(_)
StripDots(s) ==
    IF s # E /\ Head(s) \in {".", "_"} THEN StripDots(Tail(s))
    ELSE IF s # E /\ s[Len(s)] \in {".", "_"}
         THEN StripDots(SubSeq(s, 1, Len(s) - 1))
    ELSE s

\* werkzeug.utils.secure_filename as called on line 309.
secure_filename(filename) ==
    StripDots(KeepSafe(JoinWords(RStrip(LStrip(ReplaceSep(AsciiFold(filename)))))))

----------------------------------------------------------------------------
\* The Upload/Viewer Service: reading the document store.

\* The globals of the web process after start-up (lines 463-473).
AppState(user, pass, client) ==
    [DB_USERNAME |-> user, DB_PASSWORD |-> pass, client |-> client]

AppReady == AppState(EnvUser, EnvPass, TRUE)
AppNoCredentials == AppState(E, E, TRUE)
AppNoClient == AppState(EnvUser, EnvPass, FALSE)

\* Only the user name is looked at.
HasCredentialsUserOnly == app.DB_USERNAME # E

\* not (not DB_USERNAME or not DB_PASSWORD), lines 115, 204, 276, 357
HasCredentials == app.DB_USERNAME # E /\ app.DB_PASSWORD # E

\* doc_data of lines 226-230: the stored value with the item's id added.
Rendered(item) ==
    [image_name |-> item.value.image_name,
     bucket_name |-> item.value.bucket_name,
     timestamp |-> item.value.timestamp,
     analysis_results |-> item.value.analysis_results,
     doc_id |-> item.id]

\* The list get_analysis_results builds from the items of a 200 answer
\* (lines 222-233).
StoredResults == [i \in 1..Len(docs) |-> Rendered(docs[i])]

\* The request get_bucket_images makes to the storage service (line 250).
StorageListCalls == IF app.client THEN <<"list_objects">> ELSE <<>>

\* next(...) of line 342: the results are searched in order.
RECURSIVE FirstMatchFrom(_, _)
FirstMatchFrom(results, name) ==
    IF results = <<>> THEN <<>>
    ELSE IF Head(results).image_name = name THEN <<Head(results)>>
    ELSE FirstMatchFrom(Tail(results), name)

\* The dict of lines 286-290 from position i on, as the list of its values:
\* a key stands where it was first inserted and holds the last result
\* assigned to it; results without a name are left out.
RECURSIVE ResultsByNameFrom(_, _)
ResultsByNameFrom(results, i) ==
    IF i > Len(results) THEN <<>>
    ELSE LET image_name == results[i].image_name
             first == \A j \in 1..(i - 1) : results[j].image_name # image_name
             last == CHOOSE k \in i..Len(results) :
                         /\ results[k].image_name = image_name
                         /\ \A m \in (k + 1)..Len(results) :
                                results[m].image_name # image_name
         IN  (IF image_name # E /\ first THEN <<results[last]>> ELSE <<>>)
             \o ResultsByNameFrom(results, i + 1)

ResultsByName(results) == ResultsByNameFrom(results, 1)

ImageSuffixes ==
    {<<".">> \o Png, <<".">> \o Jpg, <<".">> \o Jpeg, <<".">> \o Gif}

EndsWith(s, suffix) ==
    Len(s) >= Len(suffix)
    /\ SubSeq(s, Len(s) - Len(suffix) + 1, Len(s)) = suffix

\* Every object of the bucket is listed, whatever its name ends in.
BucketImagesUnfiltered(up) == IF ~app.client \/ ~up THEN {} ELSE bucket

\* get_bucket_images (lines 242-266) when the storage service answers (up) or
\* does not.
BucketImages(up) ==
    IF ~app.client \/ ~up THEN {}
    ELSE {o \in bucket : \E suffix \in ImageSuffixes : EndsWith(Lower(o), suffix)}

NoCredentialsWarning ==
    "Database credentials are not configured; analysis results will be unavailable until set via Vault or env."

\* Whatever comes first is shown, whichever image it belongs to.
FirstMatchAnyName(results, name) ==
    IF results = <<>> THEN <<>> ELSE <<Head(results)>>

\* The first result whose image_name is name (line 342), as a list of at most
\* one element.
FirstMatch(results, name) == FirstMatchFrom(results, name)

\* The request rec after one more call.
WebCalled(rec, call) == [rec EXCEPT !.calls = Append(@, call)]

\* What index (lines 283-293), api_results (line 336) and view_result (lines
\* 342-352) answer once get_analysis_results has returned results to the
\* request rec.
ReadResponse(rec, results) ==
    IF rec.op = "index"
    THEN WebResp("index", E,
                 IF HasCredentials THEN "" ELSE NoCredentialsWarning,
                 0, rec.images, ResultsByName(results), rec.calls)
    ELSE IF rec.op = "api_results"
    THEN WebResp("api_results", E, "", 0, {}, results, rec.calls)
    ELSE LET result == FirstMatch(results, rec.name)
         IN  IF result # <<>>
             THEN WebResp("view_result", rec.name, "", 0, {}, result, rec.calls)
             ELSE WebResp("view_result", rec.name,
                          "Analysis for {image_filename} not found in the database.",
                          0, {}, <<>>, rec.calls)

\* get_analysis_results returns results to the request rec, which answers.
ReadDone(rec, results) ==
    /\ resp' = ReadResponse(rec, results)
    /\ w' = WebIdle

\* The request rec goes on to the call pc.
WebGoto(rec, pc) ==
    /\ w' = [rec EXCEPT !.pc = pc]
    /\ resp' = NoWebResp

\* get_analysis_results, lines 204-210, entered by the request rec: without
\* credentials it returns [] at once, otherwise ensure_collection_exists
\* starts with the connectivity GET.
ReadStart(rec) ==
    IF ~HasCredentials THEN ReadDone(rec, <<>>) ELSE WebGoto(rec, "base")

\* index, lines 272-283, up to the return of get_bucket_images; sup: the
\* storage service answers list_objects.
IndexWith(sup) ==
    /\ w.pc = "idle"
    /\ ReadStart([WebIdle EXCEPT !.op = "index", !.images = BucketImages(sup),
                                 !.calls = StorageListCalls])
    /\ UNCHANGED <<bucket, collection, docs, events, h, fg, cfg, app>>

Index == \E sup \in BOOLEAN : IndexWith(sup)

\* api_results, lines 332-336, up to its first request
ApiResults ==
    /\ w.pc = "idle"
    /\ ReadStart([WebIdle EXCEPT !.op = "api_results"])
    /\ UNCHANGED <<bucket, collection, docs, events, h, fg, cfg, app>>

\* view_result, lines 338-341, up to its first request
ViewResult(image_filename) ==
    /\ w.pc = "idle"
    /\ ReadStart([WebIdle EXCEPT !.op = "view_result", !.name = image_filename])
    /\ UNCHANGED <<bucket, collection, docs, events, h, fg, cfg, app>>

\* What the connectivity GET of line 124 can come back with: "answered" (any
\* status: lines 125-127 only print it) or "raised".
BaseReplies == {"answered", "raised"}

\* ensure_collection_exists, lines 119-127 and 195-199: the connectivity GET.
ReadBaseWith(reply) ==
    /\ w.pc = "base"
    /\ IF reply = "answered"
       THEN WebGoto(WebCalled(w, "store.base"), "probe")
       ELSE ReadDone(WebCalled(w, "store.base"), <<>>)
    /\ UNCHANGED <<bucket, collection, docs, events, h, fg, cfg, app>>

ReadBase == \E reply \in BaseReplies : ReadBaseWith(reply)

\* ensure_collection_exists, lines 129-140 and 190-199: the existence probe.
ReadProbeWith(status) ==
    /\ w.pc = "probe"
    /\ IF status = 200 THEN WebGoto(WebCalled(w, "store.probe"), "items")
       ELSE IF status = 404 THEN WebGoto(WebCalled(w, "store.probe"), "create")
       ELSE ReadDone(WebCalled(w, "store.probe"), <<>>)
    /\ UNCHANGED <<bucket, collection, docs, events, h, fg, cfg, app>>

ReadProbe == \E status \in ProbeReplies : ReadProbeWith(status)

\* ensure_collection_exists, lines 141-189 and 195-199: the PUT that creates
\* the collection, answered with reply.
ReadCreateWith(reply) ==
    /\ w.pc = "create"
    /\ collection' = (collection \/ reply \in {"created", "lost"})
    /\ IF reply = "created"
       THEN WebGoto(WebCalled(w, "store.create"), "items")
       ELSE ReadDone(WebCalled(w, "store.create"), <<>>)
    /\ UNCHANGED <<bucket, docs, events, h, fg, cfg, app>>

ReadCreate == \E reply \in CreateReplies : ReadCreateWith(reply)

\* What a GET of the collection's items (lines 215 and 364) can come back
\* with: "items" (status 200 and the items as JSON) or "error" (any other
\* status, a body that is not JSON, or an exception of the requests library).
ItemsReplies == {"items", "error"}

\* get_analysis_results, lines 212-240: the GET of the items.
ReadItemsWith(reply) ==
    /\ w.pc = "items"
    /\ reply = "items" => collection
    /\ ReadDone(WebCalled(w, "store.items"),
                IF reply = "items" THEN StoredResults ELSE <<>>)
    /\ UNCHANGED <<bucket, collection, docs, events, h, fg, cfg, app>>

ReadItems == \E reply \in ItemsReplies : ReadItemsWith(reply)

----------------------------------------------------------------------------
\* The Upload/Viewer Service: upload and delete.

\* What put_object (line 311) and delete_object (line 417) can come back
\* with: "ok", "failed" (the call raises and the bucket is as before), "lost"
\* (the storage service does it and the call raises all the same: its reply
\* does not arrive).
StorageReplies == {"ok", "failed", "lost"}

\* upload_file, lines 295-330, for a request whose file part is named
\* filename (part = FALSE: the request has no file part), with put_object
\* answered by put.
UploadFile(part, filename, put) ==
    LET stored == secure_filename(filename)
        answer(flash, calls) ==
            WebResp("upload", filename, flash, 0, {}, <<>>, calls)
        unchanged == bucket' = bucket /\ events' = events
        written ==
            /\ bucket' = bucket \cup {stored}
            /\ events' = events \cup {StorageEvent(Namespace, BUCKET_NAME, stored)}
    IN  /\ w.pc = "idle"
        /\ IF ~part THEN unchanged /\ resp' = answer("No file part", <<>>)
           ELSE IF filename = E
           THEN unchanged /\ resp' = answer("No selected file", <<>>)
           ELSE IF ~allowed_file(filename)
           THEN unchanged
                /\ resp' = answer("Invalid file type. Please upload PNG, JPG, JPEG, or GIF files.", <<>>)
           ELSE IF ~app.client
           THEN unchanged
                /\ resp' = answer("Object Storage client not initialized", <<>>)
           ELSE IF put = "failed"
           THEN unchanged
                /\ resp' = answer("Error uploading file: {e}", <<"put_object">>)
           ELSE IF put = "lost"
           THEN written
                /\ resp' = answer("Error uploading file: {e}", <<"put_object">>)
           ELSE written
                /\ resp' = answer("File {filename} uploaded successfully! Analysis will appear shortly.",
                                  <<"put_object">>)
        /\ UNCHANGED <<collection, docs, h, fg, cfg, app, w>>

\* The items whose image_name is filename (lines 375-379), by position.
Matching(filename) ==
    {i \in 1..Len(docs) : docs[i].value.image_name = filename}

\* documents_to_delete, lines 373-379: the ids of the items from position i
\* on whose image_name is filename, in the order of the items.
RECURSIVE DocumentsToDelete(_, _)
DocumentsToDelete(filename, i) ==
    IF i > Len(docs) THEN <<>>
    ELSE (IF i \in Matching(filename) THEN <<docs[i].id>> ELSE <<>>)
         \o DocumentsToDelete(filename, i + 1)

\* The sequence s without the positions in gone.
RECURSIVE Without(_, _, _)
Without(s, gone, i) ==
    IF i > Len(s) THEN <<>>
    ELSE (IF i \in gone THEN <<>> ELSE <<s[i]>>) \o Without(s, gone, i + 1)

\* The flash of lines 429-436 and the redirect, for the request rec and the
\* return value db_deleted_count of delete_analysis_by_filename.
DeleteResponse(rec, db_deleted_count) ==
    WebResp("delete", rec.name,
            IF rec.storage_deleted /\ db_deleted_count > 0
            THEN "Successfully deleted {filename} and {db_deleted_count} analysis record(s)"
            ELSE IF rec.storage_deleted
            THEN "Successfully deleted {filename} from storage (no analysis records found)"
            ELSE IF db_deleted_count > 0
            THEN "Deleted {db_deleted_count} analysis record(s) for {filename} (storage deletion failed)"
            ELSE "Warning: Could not fully delete {filename} and its analysis records",
            db_deleted_count, {}, <<>>, rec.calls)

\* delete_analysis_by_filename returns db_deleted_count to the request rec,
\* which answers.
DeleteDone(rec, db_deleted_count) ==
    /\ resp' = DeleteResponse(rec, db_deleted_count)
    /\ w' = WebIdle

\* delete_file, lines 408-426 and 438-442, up to the first request to the
\* document store, with delete_object answered by reply.  The storage
\* service deletes only an object it holds.
DeleteFile(filename, reply) ==
    LET storage == IF app.client THEN <<"delete_object">> ELSE <<>>
        rec == [WebIdle EXCEPT !.op = "delete", !.name = filename,
                               !.storage_deleted = app.client,
                               !.calls = storage]
    IN  /\ w.pc = "idle"
        /\ (app.client /\ filename \notin bucket) => reply = "failed"
        /\ IF app.client /\ reply # "ok"
           THEN \* delete_object raised: the handler of line 438
                /\ bucket' = IF reply = "lost" THEN bucket \ {filename}
                             ELSE bucket
                /\ resp' = WebResp("delete", filename,
                                   "Error deleting {filename}: {e}", 0, {},
                                   <<>>, storage)
                /\ w' = WebIdle
           ELSE /\ bucket' = IF app.client THEN bucket \ {filename} ELSE bucket
                /\ IF ~HasCredentials THEN DeleteDone(rec, 0)
                   ELSE WebGoto(rec, "delete_items")
        /\ UNCHANGED <<collection, docs, events, h, fg, cfg, app>>

\* delete_analysis_by_filename, lines 360-381 and 399-406: the GET of the
\* items and the ids collected from them.
DeleteItemsWith(reply) ==
    LET rec == WebCalled(w, "store.items")
        documents_to_delete == DocumentsToDelete(w.name, 1)
    IN  /\ w.pc = "delete_items"
        /\ reply = "items" => collection
        /\ IF reply = "items" /\ documents_to_delete # <<>>
           THEN WebGoto([rec EXCEPT !.todo = documents_to_delete], "delete_doc")
           ELSE DeleteDone(rec, 0)
        /\ UNCHANGED <<bucket, collection, docs, events, h, fg, cfg, app>>

DeleteItems == \E reply \in ItemsReplies : DeleteItemsWith(reply)

\* What the DELETE of line 385 can come back with: "deleted" (status 200 or
\* 204), "refused" (any other status: the document stays), "raised" (an
\* exception of the requests library before the store acts), "lost" (the
\* store deletes the document and its reply does not arrive: requests raises).
DeleteReplies == {"deleted", "refused", "raised", "lost"}

\* delete_analysis_by_filename, lines 382-406: the DELETE of the next
\* document of documents_to_delete.  An exception ends the function with 0
\* (lines 404-406), whatever deleted_count had reached.
DeleteDocWith(reply) ==
    LET rec == WebCalled(w, "store.delete")
        doc_id == Head(w.todo)
        held == {i \in 1..Len(docs) : docs[i].id = doc_id}
        deleted_count == IF reply = "deleted" THEN w.count + 1 ELSE w.count
    IN  /\ w.pc = "delete_doc"
        /\ reply \in {"deleted", "lost"} => held # {}
        /\ docs' = IF reply \in {"deleted", "lost"} THEN Without(docs, held, 1)
                   ELSE docs
        /\ IF reply \in {"raised", "lost"} THEN DeleteDone(rec, 0)
           ELSE IF Tail(w.todo) = <<>> THEN DeleteDone(rec, deleted_count)
           ELSE WebGoto([rec EXCEPT !.todo = Tail(w.todo),
                                    !.count = deleted_count], "delete_doc")
        /\ UNCHANGED <<bucket, collection, events, h, fg, cfg, app>>

DeleteDoc == \E reply \in DeleteReplies : DeleteDocWith(reply)

\* The calls of the request being served, one at a time.
ReadStep ==
    \/ ReadBase
    \/ ReadProbe
    \/ ReadCreate
    \/ ReadItems

DeleteStep ==
    \/ DeleteItems
    \/ DeleteDoc

----------------------------------------------------------------------------
\* The whole system: the web service, the storage events and the handler.
\* The requests of the web service and the calls of the handler interleave.
\* index stands for the read operations: api_results and view_result make the
\* same requests to the document store.

\* File names the browser sends in the system specification.
Filenames == {XPng, YJpg}

\* The platform delivers the event of the finished invocation once more.
Redeliver ==
    /\ h.pc = "done"
    /\ h.ev \notin events
    /\ events' = events \cup {h.ev}
    /\ resp' = NoWebResp
    /\ UNCHANGED <<bucket, collection, docs, h, fg, cfg, app, w>>

Init ==
    /\ bucket = {}
    /\ collection = FALSE
    /\ docs = <<>>
    /\ events = {}
    /\ h = Idle
    /\ cfg = MixedConfig
    /\ fg = Globals(cfg)
    /\ app = AppReady
    /\ resp = NoWebResp
    /\ w = WebIdle

Next ==
    \/ \E filename \in Filenames, put \in StorageReplies :
           UploadFile(TRUE, filename, put)
    \/ \E filename \in Filenames, reply \in StorageReplies :
           DeleteFile(filename, reply)
    \/ DeleteStep
    \/ Index
    \/ ReadStep
    \/ \E ev \in events : HandlerInvoke(ev)
    \/ HandlerStep
    \/ Redeliver

Spec == Init /\ [][Next]_vars

----------------------------------------------------------------------------
\* The read operations of the web service over the contents the store can
\* have: documents the handler inserts, under keys the store assigns.

DocValues ==
    {Document(name, BUCKET_NAME, Normalize(raw)) :
        name \in Filenames, raw \in {r \in VisionReplies : Normalizable(r)}}

\* Item lists of n documents with pairwise different keys.
ItemLists(n) ==
    {items \in [1..n -> [id : Ids, value : DocValues]] :
        \A i, j \in 1..n : i # j => items[i].id # items[j].id}

InitRead ==
    /\ bucket \in SUBSET Filenames
    /\ \E n \in 0..MaxDocs : docs \in ItemLists(n)
    /\ collection \in BOOLEAN
    /\ (docs # <<>> => collection)
    /\ events = {}
    /\ h = Idle
    /\ cfg = EnvConfig
    /\ fg = Globals(cfg)
    /\ app \in {AppReady, AppNoCredentials, AppNoClient}
    /\ resp = NoWebResp
    /\ w = WebIdle

NextRead ==
    \/ \E filename \in Filenames : ViewResult(filename)
    \/ Index
    \/ ApiResults
    \/ ReadStep

SpecRead == InitRead /\ [][NextRead]_vars

----------------------------------------------------------------------------
\* Uploads alone, over a wide set of file names.

WideFilenames ==
    {E, XPng, YJpg,
     <<"x", ".", "P", "N", "G">>,
     <<"a", ".", "j", "p", "e", "g">>,
     <<"a", " ", "b", ".", "g", "i", "f">>,
     <<".", "g", "i", "f">>,
     <<"x", ".", "t", "x", "t">>,
     <<"x", ".", "p", "n", "g", ".", "e", "x", "e">>,
     <<"p", "n", "g">>,
     <<"x", ".">>,
     <<"x", ".", "p", "n", "g", " ">>}

InitUpload ==
    /\ bucket \in {{}, {XPng}}
    /\ collection = FALSE
    /\ docs = <<>>
    /\ events = {}
    /\ h = Idle
    /\ cfg = EnvConfig
    /\ fg = Globals(cfg)
    /\ app \in {AppReady, AppNoClient}
    /\ resp = NoWebResp
    /\ w = WebIdle

NextUpload ==
    \E part \in BOOLEAN, filename \in WideFilenames, put \in StorageReplies :
        UploadFile(part, filename, put)

SpecUpload == InitUpload /\ [][NextUpload]_vars

----------------------------------------------------------------------------
\* One handler process that serves invocation after invocation: the module
\* globals of lines 13-24 live as long as the process.

WarmEvents ==
    {StorageEvent(NsOne, BktOne, CatJpg),
     Event("Ok", CreateObject, E, DogPng, E, E, E, E, E, BktOne, NsOne)}

InitWarm ==
    /\ bucket = {}
    /\ collection \in BOOLEAN
    /\ docs = <<>>
    /\ \E ev \in WarmEvents : events = {ev}
    /\ h = Idle
    /\ cfg \in HandlerConfigs
    /\ fg = Globals(cfg)
    /\ app = AppIdle
    /\ resp = NoWebResp
    /\ w = WebIdle

NextWarm ==
    \/ \E ev \in events : HandlerInvoke(ev)
    \/ HandlerStep
    \/ Redeliver

SpecWarm == InitWarm /\ [][NextWarm]_vars

----------------------------------------------------------------------------
\* The web service alone, in each of its start-up states, over the contents
\* the store can have.

DotGif == <<".", "g", "i", "f">>

\* File names the browser uploads, and the object names they are stored under.
WebFilenames == {XPng, DotGif}
StoredNames == {secure_filename(filename) : filename \in WebFilenames}

WebDocValues ==
    {Document(name, BUCKET_NAME, Normalize(<<>>)) : name \in Filenames}

WebItemLists(n) ==
    {items \in [1..n -> [id : Ids, value : WebDocValues]] :
        \A i, j \in 1..n : i # j => items[i].id # items[j].id}

\* User name configured, password missing.
AppUserOnly == AppState(EnvUser, E, TRUE)

AppStates == {AppReady, AppNoCredentials, AppUserOnly, AppNoClient}

InitWeb ==
    /\ bucket = {}
    /\ \E n \in 0..MaxDocs : docs \in WebItemLists(n)
    /\ collection \in BOOLEAN
    /\ (docs # <<>> => collection)
    /\ events = {}
    /\ h = Idle
    /\ cfg = EnvConfig
    /\ fg = Globals(cfg)
    /\ app \in AppStates
    /\ resp = NoWebResp
    /\ w = WebIdle

NextWeb ==
    \/ \E filename \in WebFilenames, put \in StorageReplies :
           UploadFile(TRUE, filename, put)
    \/ \E filename \in StoredNames, reply \in StorageReplies :
           DeleteFile(filename, reply)
    \/ DeleteStep
    \/ ViewResult(XPng)
    \/ Index
    \/ ApiResults
    \/ ReadStep

SpecWeb == InitWeb /\ [][NextWeb]_vars

----------------------------------------------------------------------------
\* Properties of one handler invocation (checked under SpecHandler).

DirectNames(ev) ==
    {ev.adObjectName, ev.dObjectName, ev.dResourceName, ev.bResourceName,
     ev.bObjectName}

\* No direct field of the event holds a name.
NoDirectName(ev) == \A name \in DirectNames(ev) : Strip(name) = E

ObjectSegments == {CatJpg, DogPng, XPng, YJpg}

\* ev carries the resource identifier /n/{namespace}/b/{bucket}/o/{o}.
CarriesRid(ev, o) ==
    Rid(ev.namespace, ev.bucketName, o) \in {ev.dResourceId, ev.bResourceId}

\* ev carries no resource identifier of that form, with or without the
\* leading slash.
NoParseableRid(ev) ==
    \A ns \in {NsOne}, b \in {BktOne}, o \in ObjectSegments :
        /\ Rid(ns, b, o) \notin {ev.dResourceId, ev.bResourceId}
        /\ Tail(Rid(ns, b, o)) \notin {ev.dResourceId, ev.bResourceId}

\* The JSON body parses to an object.
BodyIsObject(ev) == ev.shape \in {"Ok", "DataNotObject", "DetailsNotObject"}

\* C1: a createobject event with bucketName and namespace in
\* data.additionalDetails, no direct object-name field and the resource
\* identifier /n/{namespace}/b/{bucket}/o/{object} resolves object_name to
\* {object} and bucket_name to the bucket, and does not end in the 400
\* "Missing object information" outcome.
C1_ResolvesFromResourceId ==
    \A o \in ObjectSegments :
        (/\ h.pc # "idle"
         /\ h.ev.shape = "Ok" /\ h.ev.eventType = CreateObject
         /\ DirectNames(h.ev) = {E}
         /\ h.ev.bucketName # E /\ h.ev.namespace # E
         /\ CarriesRid(h.ev, o))
        => /\ h.resp # MissingObject
           /\ h.object_name = o
           /\ h.bucket_name = h.ev.bucketName

\* C2: a well-formed createobject event with neither a direct object name nor
\* a parseable resource identifier, or with no bucket name, ends at once in
\* the 400 "Missing object information" response, and the invocation makes no
\* external call: no secret is read, no vision call, no collection probe or
\* creation and no insert is made, and the store holds no document.
C2_MissingInformationIs400 ==
    (/\ h.pc # "idle"
     /\ h.ev.shape = "Ok" /\ h.ev.eventType = CreateObject
     /\ \/ NoDirectName(h.ev) /\ NoParseableRid(h.ev)
        \/ h.ev.bucketName = E)
    => /\ h.pc = "done"
       /\ h.resp = MissingObject
       /\ h.calls = <<>>
       /\ docs = <<>>
       /\ fg = Globals(cfg)

\* C2 witness: an invocation on an event whose only name-like content is a
\* blank direct field and a resource identifier cut short has ended in 400.
C2_Witness ==
    /\ h.pc = "done" /\ h.resp = MissingObject
    /\ h.ev.bucketName = BktOne
    /\ h.ev.adObjectName = Blank
    /\ Len(Split(h.ev.dResourceId, "/")) = 5

\* The three outcome classes of the claim, and the fourth the code has.
IsSuccess ==
    /\ h.resp = Success(h.object_name, h.bucket_name, Len(h.analysis.objects))
    /\ h.calls # <<>> /\ h.calls[Len(h.calls)] = "insert"
    /\ \E i \in 1..Len(h.calls) : h.calls[i] = "vision"
    /\ \E k \in 1..Len(docs) :
           docs[k].value = Document(h.object_name, h.bucket_name, h.analysis)
IsClientError == h.resp = MissingObject /\ h.calls = <<>>
IsServerError ==
    h.resp \in {NoCredentials, ClientsFailed, AnalyzeFailed, StoreFailed,
                InternalError}
IsIgnored == h.resp = Ignored /\ h.calls = <<>>

\* C7 as claimed: every finished invocation is a success (analysis done and
\* document stored), a client error (400) or a server error (500).
C7_ThreeOutcomes ==
    h.pc = "done" => IsSuccess \/ IsClientError \/ IsServerError

\* C7 as amended: an invocation in progress has returned nothing and can take
\* its next step; a finished one has exactly one response, which is a success
\* (status 200, analysis done and document stored), "Event ignored" (status
\* 200, nothing analysed or stored), a client error (status 400) or a server
\* error (status 500).
C7_FourOutcomes ==
    /\ h.pc \notin {"idle", "done"} => h.resp = NoResp /\ ENABLED HandlerStep
    /\ h.pc = "done" =>
         /\ h.resp.status \in {200, 400, 500}
         /\ h.resp.status = 200 => IsSuccess \/ IsIgnored
         /\ h.resp.status = 400 => IsClientError
         /\ h.resp.status = 500 => IsServerError

\* C7 witness: an invocation has ended in the outcome outside the three
\* classes, on an event that names an object and a bucket.
C7_Witness ==
    /\ h.pc = "done" /\ IsIgnored
    /\ h.ev.dObjectName = DogPng /\ h.ev.bucketName = BktOne

\* C8: a malformed event (no body, a body that is not JSON, a JSON value that
\* is not an object, data or additionalDetails not an object) ends in a
\* client-error response.
C8_MalformedIsClientError ==
    (h.pc = "done" /\ h.ev.shape # "Ok") => h.resp.status = 400

\* C9: an event whose body is an object and whose eventType is not the
\* object-created type ends at once in "Event ignored": no secret is read
\* (the globals are as loaded), no external call is made, nothing is stored.
C9_OtherEventTypesIgnored ==
    (h.pc # "idle" /\ BodyIsObject(h.ev) /\ h.ev.eventType # CreateObject)
    => /\ h.pc = "done"
       /\ h.resp = Ignored
       /\ h.calls = <<>>
       /\ docs = <<>>
       /\ fg = Globals(cfg)

\* C9 witness: a deleteobject event that carries an object name, a bucket and
\* a resource identifier has been ignored, with secrets configured.
C9_Witness ==
    /\ h.pc = "done" /\ h.resp = Ignored
    /\ h.ev.eventType = DeleteObject
    /\ h.ev.adObjectName = XPng /\ h.ev.bucketName = BktOne
    /\ h.ev.dResourceId = Tail(Rid(NsOne, BktOne, CatJpg))
    /\ cfg = VaultConfig

\* The number of calls c the invocation has made.
Count(calls, c) == Cardinality({i \in 1..Len(calls) : calls[i] = c})

\* The analyses the normalisation can produce.
Analyses == {Normalize(raw) : raw \in {r \in VisionReplies : Normalizable(r)}}

\* C14: the insert is issued only after the vision call of the same
\* invocation has succeeded and its result was normalised; when the vision
\* call or the normalisation fails the invocation ends with status 500
\* "Failed to analyze image", the vision call was made exactly once, and no
\* collection probe, collection creation or insert was issued and nothing is
\* stored.  No invocation makes the vision call twice.
C14_InsertOnlyAfterAnalysis ==
    /\ Count(h.calls, "vision") <= 1
    /\ h.resp = AnalyzeFailed
       => /\ h.pc = "done" /\ h.resp.status = 500
          /\ Count(h.calls, "vision") = 1
          /\ h.calls[Len(h.calls)] = "vision"
          /\ Count(h.calls, "probe") = 0
          /\ Count(h.calls, "create") = 0
          /\ Count(h.calls, "insert") = 0
          /\ docs = <<>>
    /\ \A i \in 1..Len(h.calls) :
           h.calls[i] \in {"probe", "create", "insert"}
           => /\ \E j \in 1..(i - 1) : h.calls[j] = "vision"
              /\ h.analysis \in Analyses
              /\ h.resp # AnalyzeFailed

\* C14 witness: an invocation with its secrets in the vault has read them,
\* built its clients, made the vision call and ended in "Failed to analyze
\* image".
C14_Witness ==
    /\ h.pc = "done" /\ h.resp = AnalyzeFailed
    /\ h.calls = <<"vault", "vault", "vault", "signer", "vision">>

\* C15: a finished invocation that reached persistence returns the success
\* payload exactly when its document is in the store, and otherwise "Failed
\* to store analysis results" (500), in which case the store holds no
\* document of this invocation.
C15_SuccessIffStored ==
    (h.pc = "done" /\ Count(h.calls, "probe") > 0)
    => LET document == Document(h.object_name, h.bucket_name, h.analysis)
           stored == \E k \in 1..Len(docs) : docs[k].value = document
       IN  /\ h.resp \in {Success(h.object_name, h.bucket_name,
                                  Len(h.analysis.objects)), StoreFailed}
           /\ h.resp = StoreFailed <=> ~stored

\* C16: the probe is followed by the creation of the collection when it is
\* absent, and a creation answered "a collection of that name exists with
\* different metadata" is tolerated like a successful one: the invocation
\* goes on to the insert and has not ended in a failure.
C16_DifferentMetadataTolerated ==
    [][\A reply \in {"created", "different-metadata"} :
         HandlerCreateWith(reply)
         => /\ h'.pc = "insert"
            /\ h'.resp = NoResp]_vars

\* The first of the direct candidates that is non-empty after trimming,
\* trimmed; E when there is none.
FirstDirect(ev) ==
    LET pn == PossibleNames(ev)
        good == {k \in 1..Len(pn) : Strip(pn[k]) # E}
    IN  IF good = {} THEN E
        ELSE Strip(pn[CHOOSE k \in good : \A j \in good : k <= j])

\* C17: for a well-formed createobject event with a bucket name, the object
\* name is the first direct candidate that is non-empty after trimming and,
\* when every direct candidate is empty or whitespace-only, the object
\* segment of the resource identifier.  The identifier is taken in the form
\* the handler's split accepts, n/{namespace}/b/{bucket}/o/{object}.
C17_FirstNonEmptyThenResourceId ==
    (/\ h.pc # "idle"
     /\ h.ev.shape = "Ok" /\ h.ev.eventType = CreateObject
     /\ h.ev.bucketName # E)
    => IF FirstDirect(h.ev) # E
       THEN h.object_name = FirstDirect(h.ev)
       ELSE \A o \in ObjectSegments :
                ResourceId(h.ev) = Tail(Rid(NsOne, BktOne, o))
                => h.object_name = o /\ h.resp # MissingObject

----------------------------------------------------------------------------
\* Properties of upload (checked under SpecUpload).

\* The text after the last dot of filename, lower-cased, is an allowed
\* extension.
ExtensionAllowed(filename) ==
    \E k \in 1..Len(filename) :
        /\ filename[k] = "."
        /\ \A j \in (k + 1)..Len(filename) : filename[j] # "."
        /\ Lower(SubSeq(filename, k + 1, Len(filename))) \in ALLOWED_EXTENSIONS

InvalidFileType ==
    "Invalid file type. Please upload PNG, JPG, JPEG, or GIF files."

\* The upload made no put_object call: the bucket is as it was and no
\* creation event was emitted.
NoPut == bucket' = bucket /\ events' = events

\* C3 as claimed: with the storage client initialised and the storage service
\* accepting the put, upload stores the object for every file name with an
\* allowed extension, and for every other file name it answers "Invalid file
\* type" and makes no put_object call.
C3_UploadAcceptsOrInvalid ==
    [][\A filename \in WideFilenames :
         (UploadFile(TRUE, filename, "ok") /\ app.client)
         => IF ExtensionAllowed(filename)
            THEN secure_filename(filename) \in bucket'
            ELSE NoPut /\ resp'.flash = InvalidFileType]_vars

\* C3 as amended: a file name with an allowed extension is stored, under its
\* sanitized name, when the storage client is initialised and the service
\* performs the put, and otherwise leaves the bucket as it was; every other
\* file name makes no put_object call and is answered "Invalid file type",
\* except the empty file name, which is answered "No selected file".
C3_UploadAcceptsOrRejects ==
    [][\A filename \in WideFilenames, put \in StorageReplies :
         UploadFile(TRUE, filename, put)
         => IF ExtensionAllowed(filename)
            THEN bucket' = IF app.client /\ put # "failed"
                           THEN bucket \cup {secure_filename(filename)}
                           ELSE bucket
            ELSE /\ NoPut
                 /\ resp'.flash = IF filename = E THEN "No selected file"
                                  ELSE InvalidFileType]_vars

\* C3 witness: uploads have stored an upper-case .PNG file and the last one,
\* with an empty file name, was answered "No selected file".
C3_Witness ==
    /\ resp.op = "upload" /\ resp.name = E /\ resp.flash = "No selected file"
    /\ <<"x", ".", "P", "N", "G">> \in bucket

----------------------------------------------------------------------------
\* Properties of delete and of the store's contents (checked under Spec).

DeletedBoth ==
    "Successfully deleted {filename} and {db_deleted_count} analysis record(s)"
DeletedStorageOnly ==
    "Successfully deleted {filename} from storage (no analysis records found)"
DeletedDocumentsOnly ==
    "Deleted {db_deleted_count} analysis record(s) for {filename} (storage deletion failed)"
DeletedNeither ==
    "Warning: Could not fully delete {filename} and its analysis records"

ErrorDeleting == "Error deleting {filename}: {e}"

\* C4: delete(name), with storage and store answering, removes the object,
\* collects every document of that name and removes each one it collected;
\* a delete of the same name right after a successful one, when the object
\* and its documents are gone, reports "no analysis records found" and not
\* an error.
C4_SecondDeleteReportsNoAnalysis ==
    [][/\ \A filename \in Filenames :
            /\ (DeleteFile(filename, "ok") /\ app.client)
               => filename \notin bucket'
            /\ (/\ \E reply \in StorageReplies : DeleteFile(filename, reply)
                /\ resp.op = "delete" /\ resp.name = filename
                /\ resp.flash \in {DeletedBoth, DeletedStorageOnly}
                /\ filename \notin bucket /\ Matching(filename) = {})
               => /\ resp'.flash # ErrorDeleting
                  /\ resp'.op = "delete" => resp'.flash = DeletedStorageOnly
       /\ (DeleteItemsWith("items") /\ Matching(w.name) # {})
          => {w'.todo[k] : k \in 1..Len(w'.todo)}
             = {docs[i].id : i \in Matching(w.name)}
       /\ DeleteDocWith("deleted")
          => \A k \in 1..Len(docs') : docs'[k].id # Head(w.todo)]_vars

\* C5: when the storage delete call fails, the deletion of the documents is
\* still attempted: the request goes on to the document store and does not
\* answer with the error of the storage call.
C5_DocumentsDeletedWhenStorageFails ==
    [][\A filename \in Filenames, reply \in {"failed", "lost"} :
         (DeleteFile(filename, reply) /\ app.client /\ HasCredentials)
         => resp'.flash # ErrorDeleting /\ w'.pc = "delete_items"]_vars

\* C6: the store never holds two documents with the same image_name.
C6_OneDocumentPerImage ==
    \A i, j \in 1..Len(docs) :
        i # j => docs[i].value.image_name # docs[j].value.image_name

----------------------------------------------------------------------------
\* Properties of view (checked under SpecRead).

NotFound == "Analysis for {image_filename} not found in the database."

\* The position of the first stored document of image name.
FirstStored(name) ==
    CHOOSE k \in Matching(name) : \A j \in Matching(name) : k <= j

\* C10 as claimed: with credentials and the store answering, view(name)
\* reports not-found when no document of that name exists, and otherwise
\* renders exactly the fields of a stored document of that name.
C10_ViewRendersStoredFields ==
    [][\A name \in Filenames :
         (ReadItemsWith("items") /\ w.op = "view_result" /\ w.name = name)
         => IF Matching(name) = {}
            THEN resp'.flash = NotFound /\ resp'.results = <<>>
            ELSE \E k \in Matching(name) :
                     resp'.results = <<docs[k].value>>]_vars

\* C10 as amended: view(name) reports not-found when no document of that name
\* exists, and also when credentials are missing or a request to the store
\* fails; otherwise it renders the fields of the first stored document of
\* that name, each with its stored value, and one more field, doc_id, that
\* holds the key of that document.
C10_ViewRendersStoredFieldsAndId ==
    [][\A name \in Filenames :
         (resp'.op = "view_result" /\ resp'.name = name)
         => IF Matching(name) = {} \/ ~ReadItemsWith("items")
            THEN resp'.flash = NotFound /\ resp'.results = <<>>
            ELSE LET item == docs[FirstStored(name)]
                 IN  /\ resp'.flash = ""
                     /\ resp'.results =
                          <<[image_name |-> item.value.image_name,
                             bucket_name |-> item.value.bucket_name,
                             timestamp |-> item.value.timestamp,
                             analysis_results |-> item.value.analysis_results,
                             doc_id |-> item.id]>>]_vars

\* C10 witness: the view of y.jpg shows the second of two stored documents,
\* the first being of another image, with the detected objects it was stored
\* with.
C10_Witness ==
    /\ resp.op = "view_result" /\ resp.name = YJpg /\ resp.results # <<>>
    /\ Len(docs) = 2 /\ docs[1].value.image_name = XPng
    /\ resp.results[1].doc_id = docs[2].id
    /\ resp.results[1].analysis_results = docs[2].value.analysis_results
    /\ Len(resp.results[1].analysis_results.objects) = 2

----------------------------------------------------------------------------
\* Properties of a handler process that serves several invocations (checked
\* under SpecWarm).

\* C12: the credentials and the endpoint an invocation uses depend only on
\* the environment configuration and on the vault's replies during that
\* invocation: after each fetch the global it loads is what a process that
\* has served no invocation before would hold after the same reply, so a
\* secret an earlier invocation fetched is not used when the fetch fails.
C12_NoStateBetweenInvocations ==
    [][/\ \A u \in VaultReplies(VaultUser) :
            HandlerLoadUser(u)
            => fg'.DB_USERNAME = LoadUser(Globals(cfg), cfg, u).DB_USERNAME
       /\ \A p \in VaultReplies(VaultPass) :
            HandlerLoadPassword(p)
            => fg'.DB_PASSWORD = LoadPassword(Globals(cfg), cfg, p).DB_PASSWORD
       /\ \A url \in UrlReplies :
            HandlerLoadUrl(url)
            => fg'.DB_ORDS_BASE_URL =
                   LoadUrl(Globals(cfg), cfg, url).DB_ORDS_BASE_URL]_vars

----------------------------------------------------------------------------
\* Properties of the web service in its start-up states (checked under
\* SpecWeb).

\* The results list() associates with image name.
ResultsFor(r, name) ==
    {i \in 1..Len(r.results) : r.results[i].image_name = name}

\* C11 as claimed: once name has been uploaded successfully (it is in the
\* bucket), every list() includes it, and associates no analysis record with
\* it when the store holds no document of that name; an upload inserts no
\* document.
C11_ListIncludesUpload ==
    [][/\ \A name \in StoredNames :
            (name \in bucket /\ resp'.op = "index")
            => /\ name \in resp'.images
               /\ Matching(name) = {} => ResultsFor(resp', name) = {}
       /\ resp'.op = "upload" => docs' = docs]_vars

\* C11 as amended: a list() whose storage listing succeeds shows exactly the
\* objects of the bucket whose stored (sanitized) name ends, case-insensitive,
\* in an allowed extension, so it includes an uploaded x.png until x.png is
\* deleted; a list() whose storage listing fails shows no image.  In both
\* cases list() associates no analysis record with a name of which the store
\* holds no document when list() reads it.  An upload inserts no document
\* and makes no request to the document store.
C11_ListIncludesListedUpload ==
    [][/\ \A sup \in BOOLEAN :
            IndexWith(sup)
            => (IF resp'.op = "index" THEN resp'.images ELSE w'.images)
               = IF app.client /\ sup
                 THEN {name \in bucket : ExtensionAllowed(name)}
                 ELSE {}
       /\ resp'.op = "index"
          => /\ w.pc # "idle" => resp'.images = w.images
             /\ \A name \in StoredNames \cup Filenames :
                    Matching(name) = {} => ResultsFor(resp', name) = {}
       /\ resp'.op = "upload"
          => /\ docs' = docs /\ collection' = collection
             /\ \A i \in 1..Len(resp'.calls) : resp'.calls[i] = "put_object"]_vars

\* C11 witness: x.png has been uploaded, the store holds a document of
\* another image only, and list() shows x.png with no analysis record and the
\* other image's record.
C11_Witness ==
    /\ resp.op = "index"
    /\ XPng \in bucket /\ XPng \in resp.images
    /\ Matching(XPng) = {} /\ ResultsFor(resp, XPng) = {}
    /\ ResultsFor(resp, YJpg) # {}

\* The requests to the document store among calls.
StoreCalls(calls) ==
    {i \in 1..Len(calls) :
        calls[i] \in {"store.base", "store.probe", "store.create",
                      "store.items", "store.delete"}}

\* The requests to the storage service among calls.
StorageCalls(calls) ==
    {i \in 1..Len(calls) :
        calls[i] \in {"list_objects", "put_object", "delete_object"}}

\* C13: while the user name or the password of the document store is not
\* configured, no operation makes a request to the document store or changes
\* it, and each answers at once; list() shows the warning, the bucket's
\* images (those the storage listing returns) and no analysis record; view
\* reports not-found and api-results is empty; an accepted upload is stored
\* and a delete of a stored object removes it and reports "no analysis
\* records found".  While the storage client is not initialised, upload and
\* delete make no request to the storage service, leave the bucket as it is
\* and end in a message.  Every step answers a request or leaves one in
\* progress.
C13_DegradesWithoutCredentials ==
    [][/\ \/ resp'.op \in {"index", "view_result", "api_results", "upload", "delete"}
          \/ w'.pc # "idle"
       /\ (app.DB_USERNAME = E \/ app.DB_PASSWORD = E)
          => /\ resp'.op # "none" /\ w'.pc = "idle"
             /\ StoreCalls(resp'.calls) = {}
             /\ docs' = docs /\ collection' = collection
             /\ resp'.results = <<>>
             /\ \A sup \in BOOLEAN :
                    IndexWith(sup)
                    => /\ resp'.flash = NoCredentialsWarning
                       /\ resp'.images =
                            IF app.client /\ sup
                            THEN {name \in bucket : ExtensionAllowed(name)}
                            ELSE {}
             /\ resp'.op = "view_result" => resp'.flash = NotFound
             /\ \A filename \in WebFilenames :
                    (UploadFile(TRUE, filename, "ok") /\ app.client)
                    => secure_filename(filename) \in bucket'
             /\ \A filename \in StoredNames :
                    (/\ DeleteFile(filename, "ok")
                     /\ app.client /\ filename \in bucket)
                    => /\ filename \notin bucket'
                       /\ resp'.flash = DeletedStorageOnly
       /\ ~app.client
          => /\ bucket' = bucket /\ events' = events
             /\ resp'.op \in {"upload", "delete"}
                => StorageCalls(resp'.calls) = {} /\ resp'.flash # ""]_vars

\* C13 witness: without credentials, with documents in the store and x.png
\* uploaded, list() has shown the warning and x.png and no analysis record.
C13_Witness ==
    /\ app = AppNoCredentials
    /\ resp.op = "index" /\ resp.flash = NoCredentialsWarning
    /\ XPng \in resp.images /\ resp.results = <<>> /\ resp.calls = <<"list_objects">>
    /\ docs # <<>>

----------------------------------------------------------------------------
\* Properties of delete against an invocation in flight (checked under Spec).

\* C18: once delete(name) has completed with the object and its documents
\* removed, a step that is not a new upload of name leaves the store without
\* a document of that name, whatever the handler invocation in flight does.
C18_NoDocumentAfterDelete ==
    [][\A name \in Filenames :
         (/\ resp.op = "delete" /\ resp.name = name
          /\ resp.flash = DeletedBoth
          /\ name \notin bucket /\ Matching(name) = {}
          /\ name \notin bucket')
         => \A k \in 1..Len(docs') : docs'[k].value.image_name # name]_vars

====
